---- MODULE Spec2Model ----
(***************************************************************************)
(* The ListsIterator of mailing_lists.go: a cursor over a server-paginated *)
(* collection of mailing lists.  The iterator owns the last decoded        *)
(* listsResponse (Lists and Paging) and a sticky error; every navigation   *)
(* method performs at most one fetch.                                      *)
(*                                                                         *)
(* The methods are operators that take the receiver, the caller's output   *)
(* slot and the outcome the transport will have for this call, and return  *)
(* the receiver and slot afterwards together with what the call returned.  *)
(* The actions apply them to the state.  The next-state relation is named  *)
(* Step, because Next is a method of the iterator.                         *)
(***************************************************************************)
EXTENDS Integers, Sequences, FiniteSets, TLC

\* Largest collection the server holds.
MaxItems == 5

\* Largest page-size limit a caller passes in ListsOptions.
MaxLimit == 2

VARIABLES
    server,     \* the remote collection and the way the server writes paging links
    opts,       \* the ListsOptions the iterator was constructed with
    li,         \* the ListsIterator: [Lists, Paging, err]
    items,      \* the caller's output slot (*items)
    op,         \* the last call made on the iterator and what it returned
    fetchFailed,\* history: whether a fetch made by the iterator has returned an error
    trip,       \* history: progress of a First, Next, Previous sequence
    walk,       \* history: the pages delivered by First followed by Next, Next, ...
    moved,      \* history: whether a Next, Previous or Last has returned true
    turns,      \* the turns made by the caller's loop over Next
    peer,       \* two more ListsIterators of the same client, each with its caller's slot
    stored,     \* the mailing list the server holds for the CRUD calls
    crud        \* the last CRUD call and what it returned

vars == <<server, opts, li, items, op, fetchFailed, trip, walk, moved, turns, peer, stored, crud>>

\* What a call on the iterator li leaves alone.
others == <<turns, peer, stored, crud>>

----------------------------------------------------------------------------
(* Values *)

Nil == "nil"

\* The failures a fetch reports.
TransportError == "TransportError"
StatusError == "StatusError"
DecodeError == "DecodeError"
CallerError == "CallerError"

\* What the transport does with one request: it answers, or fails in one way.
Outcomes == {"ok", TransportError, StatusError, DecodeError}

Min(a, b) == IF a < b THEN a ELSE b

Max(a, b) == IF a > b THEN a ELSE b

Digit == <<"0", "1", "2", "3", "4", "5", "6", "7", "8", "9">>

\* strconv.Itoa for n >= 0: the decimal digits of n, most significant first.
RECURSIVE Itoa(_)
Itoa(n) == IF n < 10 THEN <<Digit[n + 1]>> ELSE Itoa(n \div 10) \o <<Digit[(n % 10) + 1]>>

DigitValue(d) == CHOOSE v \in 0..9 : Digit[v + 1] = d

\* The server's reading of a decimal parameter.
RECURSIVE Atoi(_)
Atoi(s) == IF Len(s) = 0 THEN 0 ELSE 10 * Atoi(SubSeq(s, 1, Len(s) - 1)) + DigitValue(s[Len(s)])

\* A URL: the endpoint's path and the query parameters page, address and limit.
\* The empty string of the code is the URL with an empty path and no parameter.
EmptyURL == [path |-> "", page |-> "", address |-> 0, limit |-> <<>>]

\* The Paging of a response: four URLs.
EmptyPaging == [First |-> EmptyURL, Next |-> EmptyURL, Previous |-> EmptyURL, Last |-> EmptyURL]

----------------------------------------------------------------------------
(* Request building *)

\* newHTTPRequest(url): a request for url with no parameter yet.
newHTTPRequest(url) == [URL |-> url, Parameters |-> <<>>]

\* r.addParameter(name, value)
addParameter(r, name, value) == [r EXCEPT !.Parameters = Append(@, <<name, value>>)]

\* r.generateUrlWithParameters(): the request's URL with its parameters as the
\* query, and the error of building it (none: the endpoint's URL is well formed).
generateUrlWithParameters(r) ==
    LET limits == SelectSeq(r.Parameters, LAMBDA p : p[1] = "limit")
    IN  [url |-> [r.URL EXCEPT !.limit = IF Len(limits) = 0 THEN <<>> ELSE limits[1][2]],
         err |-> Nil]

\* generatePublicApiUrl(mg, listsEndpoint) + "/pages"
PagesEndpoint == [path |-> "lists/pages", page |-> "", address |-> 0, limit |-> <<>>]

----------------------------------------------------------------------------
(* The remote server: a stable collection of server.n lists, whose addresses *)
(* are 1..server.n in the server's order.                                    *)

\* The page size the server uses when the request carries no limit.
DefaultLimit == MaxItems + 1

PageSize(url) == IF url.limit = <<>> THEN DefaultLimit ELSE Atoi(url.limit)

\* The link the server writes for a page of the collection asked for by url.
Link(url, page, address) == [url EXCEPT !.page = page, !.address = address]

\* The first and the last address of the page url asks for (empty when hi < lo).
PageLo(url) ==
    CASE url.page \in {"", "first"} -> 1
      [] url.page = "last" -> Max(1, server.n - PageSize(url) + 1)
      [] url.page = "next" -> url.address + 1
      [] url.page = "prev" -> Max(1, url.address - PageSize(url))

PageHi(url) ==
    CASE url.page \in {"", "first"} -> Min(PageSize(url), server.n)
      [] url.page = "last" -> server.n
      [] url.page = "next" -> Min(url.address + PageSize(url), server.n)
      [] url.page = "prev" -> url.address - 1

\* The listsResponse the server sends for url: the items of the page and the
\* links to the pages around it.
Serve(url) ==
    LET lo == PageLo(url)
        hi == PageHi(url)
    IN  [Lists  |-> IF hi < lo THEN <<>> ELSE [i \in 1..(hi - lo + 1) |-> lo + i - 1],
         Paging |-> [First    |-> IF server.firstIsStart
                                  THEN Link(url, "", 0)
                                  ELSE Link(url, "first", 0),
                     Next     |-> Link(url, "next", hi),
                     Previous |-> IF lo <= 1 /\ ~server.previousOnFirst
                                  THEN EmptyURL
                                  ELSE Link(url, "prev", lo),
                     Last     |-> Link(url, "last", 0)]]

----------------------------------------------------------------------------
(* The fetch *)

\* getResponseFromJSON that sends the request whatever the URL.
getResponseFromJSONAnyURL(r, target, outcome) ==
    IF outcome # "ok"
    THEN [target |-> target, err |-> outcome, calls |-> 1]
    ELSE [target |-> Serve(r.URL), err |-> Nil, calls |-> 1]

\* getResponseFromJSON(r, &target): one GET of r's URL, decoded into target.
\* An empty URL is refused without a request; a failed request or a body that
\* does not decode leaves target as it was; a decoded body replaces target.
getResponseFromJSON(r, target, outcome) ==
    IF r.URL = EmptyURL
    THEN [target |-> target, err |-> CallerError, calls |-> 0]
    ELSE IF outcome # "ok"
    THEN [target |-> target, err |-> outcome, calls |-> 1]
    ELSE [target |-> Serve(r.URL), err |-> Nil, calls |-> 1]

\* fetch decoding into a copy of the response whose Paging.First is put back
\* afterwards.
fetchKeepsFirst(it, url, outcome) ==
    LET r == newHTTPRequest(url)
        d == getResponseFromJSON(r, [Lists |-> it.Lists, Paging |-> it.Paging], outcome)
    IN  [li    |-> [it EXCEPT !.Lists = d.target.Lists,
                              !.Paging = [d.target.Paging EXCEPT !.First = it.Paging.First]],
         err   |-> d.err,
         calls |-> d.calls,
         url   |-> url]

\* fetch that empties li.Lists before the request, to decode into a fresh slice.
fetchResetsPage(it, url, outcome) ==
    LET r == newHTTPRequest(url)
        d == getResponseFromJSON(r, [Lists |-> <<>>, Paging |-> it.Paging], outcome)
    IN  [li    |-> [it EXCEPT !.Lists = d.target.Lists, !.Paging = d.target.Paging],
         err   |-> d.err,
         calls |-> d.calls,
         url   |-> url]

\* li.fetch(url): builds the request and decodes the response into the
\* iterator's embedded listsResponse.  The result holds the iterator afterwards,
\* the error returned, the number of requests made and the URL asked for.
fetch(it, url, outcome) ==
    LET r == newHTTPRequest(url)
        d == getResponseFromJSON(r, [Lists |-> it.Lists, Paging |-> it.Paging], outcome)
    IN  [li    |-> [it EXCEPT !.Lists = d.target.Lists, !.Paging = d.target.Paging],
         err   |-> d.err,
         calls |-> d.calls,
         url   |-> url]

----------------------------------------------------------------------------
(* The iterator's methods.  A call's result: the iterator and the caller's   *)
(* slot afterwards, the boolean returned (for GetNext and GetPrevious:       *)
(* whether the error returned is nil), the error returned, whether fetch was *)
(* called, the requests made, the URL fetched and the error fetch returned.  *)

Result(it, out, ok, rerr, f) ==
    [li |-> it, items |-> out, ok |-> ok, rerr |-> rerr,
     fetches |-> 1, calls |-> f.calls, url |-> f.url, ferr |-> f.err]

\* A call that returns before any fetch.
NoFetch(it, out, ok) ==
    [li |-> it, items |-> out, ok |-> ok, rerr |-> Nil,
     fetches |-> 0, calls |-> 0, url |-> EmptyURL, ferr |-> Nil]

\* ListMailingLists that seeds only Paging.Next.
ListMailingListsNextOnly(o) ==
    LET r0 == newHTTPRequest(PagesEndpoint)
        r  == IF o.present /\ o.Limit # 0
              THEN addParameter(r0, "limit", Itoa(o.Limit))
              ELSE r0
        g  == generateUrlWithParameters(r)
    IN  [Lists  |-> <<>>,
         Paging |-> [EmptyPaging EXCEPT !.Next = g.url],
         err    |-> g.err]

\* mg.ListMailingLists(opts): the iterator for the collection, nothing fetched.
ListMailingLists(o) ==
    LET r0 == newHTTPRequest(PagesEndpoint)
        r  == IF o.present /\ o.Limit # 0
              THEN addParameter(r0, "limit", Itoa(o.Limit))
              ELSE r0
        g  == generateUrlWithParameters(r)
    IN  [Lists  |-> <<>>,
         Paging |-> [EmptyPaging EXCEPT !.Next = g.url, !.First = g.url],
         err    |-> g.err]

\* li.Err()
Err(it) == it.err

\* li.GetPrevious()
GetPrevious(it, out, outcome) ==
    LET f == fetch(it, it.Paging.Previous, outcome)
    IN  Result(f.li, out, f.err = Nil, f.err, f)

\* li.GetNext()
GetNext(it, out, outcome) ==
    LET f == fetch(it, it.Paging.Next, outcome)
    IN  Result(f.li, out, f.err = Nil, f.err, f)

\* Next without the assignment to li.err: the fetch error is not kept.
NextDropsError(it, out, outcome) ==
    IF it.err # Nil
    THEN NoFetch(it, out, FALSE)
    ELSE LET f == fetch(it, it.Paging.Next, outcome)
         IN  IF f.err # Nil
             THEN Result(f.li, out, FALSE, Nil, f)
             ELSE Result(f.li, f.li.Lists, Len(f.li.Lists) # 0, Nil, f)

\* Next without the test for an empty page: true whenever the fetch succeeds.
NextIgnoresEmpty(it, out, outcome) ==
    IF it.err # Nil
    THEN NoFetch(it, out, FALSE)
    ELSE LET f   == fetch(it, it.Paging.Next, outcome)
             it2 == [f.li EXCEPT !.err = f.err]
         IN  IF it2.err # Nil
             THEN Result(it2, out, FALSE, Nil, f)
             ELSE Result(it2, it2.Lists, TRUE, Nil, f)

\* Next that fetches once more when the fetch fails.
NextRetries(it, out, outcome) ==
    IF it.err # Nil
    THEN NoFetch(it, out, FALSE)
    ELSE LET f1  == fetch(it, it.Paging.Next, outcome)
             f2  == fetch(f1.li, it.Paging.Next, outcome)
             f   == IF f1.err = Nil THEN f1 ELSE [f2 EXCEPT !.calls = f1.calls + f2.calls]
             it2 == [f.li EXCEPT !.err = f.err]
         IN  IF it2.err # Nil
             THEN Result(it2, out, FALSE, Nil, f)
             ELSE Result(it2, it2.Lists, Len(it2.Lists) # 0, Nil, f)

\* Next fetching li.Paging.First instead of li.Paging.Next.
NextFetchesFirst(it, out, outcome) ==
    IF it.err # Nil
    THEN NoFetch(it, out, FALSE)
    ELSE LET f   == fetch(it, it.Paging.First, outcome)
             it2 == [f.li EXCEPT !.err = f.err]
         IN  IF it2.err # Nil
             THEN Result(it2, out, FALSE, Nil, f)
             ELSE Result(it2, it2.Lists, Len(it2.Lists) # 0, Nil, f)

\* li.Next(&items)
Next(it, out, outcome) ==
    IF it.err # Nil
    THEN NoFetch(it, out, FALSE)
    ELSE LET f   == fetch(it, it.Paging.Next, outcome)
             it2 == [f.li EXCEPT !.err = f.err]
         IN  IF it2.err # Nil
             THEN Result(it2, out, FALSE, Nil, f)
             ELSE Result(it2, it2.Lists, Len(it2.Lists) # 0, Nil, f)

\* First without the check of li.err on entry.
FirstUnguarded(it, out, outcome) ==
    LET f   == fetch(it, it.Paging.First, outcome)
        it2 == [f.li EXCEPT !.err = f.err]
    IN  IF it2.err # Nil
        THEN Result(it2, out, FALSE, Nil, f)
        ELSE Result(it2, it2.Lists, TRUE, Nil, f)

\* First with the test for an empty page that Next and Previous make.
FirstChecksEmpty(it, out, outcome) ==
    IF it.err # Nil
    THEN NoFetch(it, out, FALSE)
    ELSE LET f   == fetch(it, it.Paging.First, outcome)
             it2 == [f.li EXCEPT !.err = f.err]
         IN  IF it2.err # Nil
             THEN Result(it2, out, FALSE, Nil, f)
             ELSE Result(it2, it2.Lists, Len(it2.Lists) # 0, Nil, f)

\* First with the assignment to *items made before the test of the error.
FirstWritesOnFailure(it, out, outcome) ==
    IF it.err # Nil
    THEN NoFetch(it, out, FALSE)
    ELSE LET f   == fetch(it, it.Paging.First, outcome)
             it2 == [f.li EXCEPT !.err = f.err]
         IN  IF it2.err # Nil
             THEN Result(it2, it2.Lists, FALSE, Nil, f)
             ELSE Result(it2, it2.Lists, TRUE, Nil, f)

\* First fetching li.Paging.Next instead of li.Paging.First.
FirstFetchesNext(it, out, outcome) ==
    IF it.err # Nil
    THEN NoFetch(it, out, FALSE)
    ELSE LET f   == fetch(it, it.Paging.Next, outcome)
             it2 == [f.li EXCEPT !.err = f.err]
         IN  IF it2.err # Nil
             THEN Result(it2, out, FALSE, Nil, f)
             ELSE Result(it2, it2.Lists, TRUE, Nil, f)

\* li.First(&items)
First(it, out, outcome) ==
    IF it.err # Nil
    THEN NoFetch(it, out, FALSE)
    ELSE LET f   == fetch(it, it.Paging.First, outcome)
             it2 == [f.li EXCEPT !.err = f.err]
         IN  IF it2.err # Nil
             THEN Result(it2, out, FALSE, Nil, f)
             ELSE Result(it2, it2.Lists, TRUE, Nil, f)

\* Last without the check of li.err on entry.
LastUnguarded(it, out, outcome) ==
    LET f   == fetch(it, it.Paging.Last, outcome)
        it2 == [f.li EXCEPT !.err = f.err]
    IN  IF it2.err # Nil
        THEN Result(it2, out, FALSE, Nil, f)
        ELSE Result(it2, it2.Lists, TRUE, Nil, f)

\* Last with the test for an empty page that Next and Previous make.
LastChecksEmpty(it, out, outcome) ==
    IF it.err # Nil
    THEN NoFetch(it, out, FALSE)
    ELSE LET f   == fetch(it, it.Paging.Last, outcome)
             it2 == [f.li EXCEPT !.err = f.err]
         IN  IF it2.err # Nil
             THEN Result(it2, out, FALSE, Nil, f)
             ELSE Result(it2, it2.Lists, Len(it2.Lists) # 0, Nil, f)

\* li.Last(&items)
Last(it, out, outcome) ==
    IF it.err # Nil
    THEN NoFetch(it, out, FALSE)
    ELSE LET f   == fetch(it, it.Paging.Last, outcome)
             it2 == [f.li EXCEPT !.err = f.err]
         IN  IF it2.err # Nil
             THEN Result(it2, out, FALSE, Nil, f)
             ELSE Result(it2, it2.Lists, TRUE, Nil, f)

\* Previous without the check for an empty li.Paging.Previous.
PreviousUnguarded(it, out, outcome) ==
    IF it.err # Nil
    THEN NoFetch(it, out, FALSE)
    ELSE LET f   == fetch(it, it.Paging.Previous, outcome)
             it2 == [f.li EXCEPT !.err = f.err]
         IN  IF it2.err # Nil
             THEN Result(it2, out, FALSE, Nil, f)
             ELSE Result(it2, it2.Lists, Len(it2.Lists) # 0, Nil, f)

\* Previous fetching li.Paging.Last instead of li.Paging.Previous.
PreviousFetchesLast(it, out, outcome) ==
    IF it.err # Nil
    THEN NoFetch(it, out, FALSE)
    ELSE IF it.Paging.Previous = EmptyURL
    THEN NoFetch(it, out, FALSE)
    ELSE LET f   == fetch(it, it.Paging.Last, outcome)
             it2 == [f.li EXCEPT !.err = f.err]
         IN  IF it2.err # Nil
             THEN Result(it2, out, FALSE, Nil, f)
             ELSE Result(it2, it2.Lists, Len(it2.Lists) # 0, Nil, f)

\* li.Previous(&items)
Previous(it, out, outcome) ==
    IF it.err # Nil
    THEN NoFetch(it, out, FALSE)
    ELSE IF it.Paging.Previous = EmptyURL
    THEN NoFetch(it, out, FALSE)
    ELSE LET f   == fetch(it, it.Paging.Previous, outcome)
             it2 == [f.li EXCEPT !.err = f.err]
         IN  IF it2.err # Nil
             THEN Result(it2, out, FALSE, Nil, f)
             ELSE Result(it2, it2.Lists, Len(it2.Lists) # 0, Nil, f)

----------------------------------------------------------------------------
(* The state machine *)

\* The boolean-returning navigation methods, and the two that return an error.
Navigation == {"First", "Next", "Previous", "Last"}

Getters == {"GetNext", "GetPrevious"}

\* The record of a call.
Call(name, res) ==
    [name |-> name, ok |-> res.ok, rerr |-> res.rerr, fetches |-> res.fetches,
     calls |-> res.calls, url |-> res.url, ferr |-> res.ferr]

\* History: the First, Next, Previous sequence a call continues or breaks.
TripAfter(name, res) ==
    CASE name = "First" /\ res.ok -> [stage |-> "first", first |-> res.items]
      [] name = "Next" /\ res.ok /\ trip.stage = "first" -> [trip EXCEPT !.stage = "next"]
      [] name = "Previous" /\ res.ok /\ trip.stage = "next" -> [trip EXCEPT !.stage = "previous"]
      [] OTHER -> [stage |-> "none", first |-> <<>>]

NoWalk == [active |-> FALSE, pages |-> 0, got |-> <<>>, done |-> FALSE]

\* History: the pages a caller's loop First, Next, Next, ... has been given, up
\* to the Next that returns false without an error.
WalkAfter(name, res) ==
    CASE name = "First" /\ res.ok ->
            [active |-> TRUE, pages |-> 1, got |-> res.items, done |-> FALSE]
      [] name = "Next" /\ walk.active /\ ~walk.done /\ res.ok ->
            [walk EXCEPT !.pages = @ + 1, !.got = @ \o res.items]
      [] name = "Next" /\ walk.active /\ ~walk.done /\ ~res.ok /\ res.li.err = Nil ->
            [walk EXCEPT !.done = TRUE]
      [] OTHER -> NoWalk

\* The effect of a call of a method on the iterator and its caller's slot.
InvokeCore(name, res) ==
    /\ li' = res.li
    /\ items' = res.items
    /\ op' = Call(name, res)
    /\ fetchFailed' = [nav |-> fetchFailed.nav \/ (name \in Navigation /\ res.ferr # Nil),
                       get |-> fetchFailed.get \/ (name \in Getters /\ res.ferr # Nil)]
    /\ trip' = TripAfter(name, res)
    /\ walk' = WalkAfter(name, res)
    /\ moved' = (moved \/ (name \in {"Next", "Previous", "Last"} /\ res.ok))
    /\ UNCHANGED <<server, opts>>

\* A call of a method on the iterator, from the caller's thread.
Invoke(name, res) == InvokeCore(name, res) /\ UNCHANGED others

CallFirst == \E outcome \in Outcomes : Invoke("First", First(li, items, outcome))

CallNext == \E outcome \in Outcomes : Invoke("Next", Next(li, items, outcome))

CallPrevious == \E outcome \in Outcomes : Invoke("Previous", Previous(li, items, outcome))

CallLast == \E outcome \in Outcomes : Invoke("Last", Last(li, items, outcome))

CallGetNext == \E outcome \in Outcomes : Invoke("GetNext", GetNext(li, items, outcome))

CallGetPrevious == \E outcome \in Outcomes : Invoke("GetPrevious", GetPrevious(li, items, outcome))

\* Err that hands the sticky error over and clears it.
CallErrClears ==
    /\ op' = [name |-> "Err", ok |-> Err(li) = Nil, rerr |-> Err(li), fetches |-> 0,
              calls |-> 0, url |-> EmptyURL, ferr |-> Nil]
    /\ li' = [li EXCEPT !.err = Nil]
    /\ UNCHANGED <<server, opts, items, fetchFailed, trip, walk, moved, others>>

\* li.Err(): reads the sticky error.
CallErr ==
    /\ op' = [name |-> "Err", ok |-> Err(li) = Nil, rerr |-> Err(li), fetches |-> 0,
              calls |-> 0, url |-> EmptyURL, ferr |-> Nil]
    /\ UNCHANGED <<server, opts, li, items, fetchFailed, trip, walk, moved, others>>

\* The options a caller passes: none, or a limit.
Options == {[present |-> FALSE, Limit |-> 0]} \cup [present : {TRUE}, Limit : 0..MaxLimit]

\* The servers: the size of the collection, whether the first link of a
\* response repeats the request's URL without page parameter or names the page
\* "first", and whether the first page carries a previous link.
Servers == [n : 0..MaxItems, firstIsStart : BOOLEAN, previousOnFirst : BOOLEAN]

\* The record of the construction of an iterator.
Constructed ==
    [name |-> "ListMailingLists", ok |-> TRUE, rerr |-> Nil, fetches |-> 0,
     calls |-> 0, url |-> EmptyURL, ferr |-> Nil]

\* The two further iterators.
Peers == {"a", "b"}

\* A further iterator just constructed with options o, and its caller's slot.
NewPeer(o) == [li |-> ListMailingLists(o), items |-> <<>>, op |-> Constructed, calls |-> 0]

\* List{}: the zero value of the List structure.
ZeroList ==
    [Address |-> "", Name |-> "", Description |-> "", AccessLevel |-> "",
     CreatedAt |-> "", MembersCount |-> 0]

\* The server holding no mailing list.
NoList == [held |-> FALSE, list |-> ZeroList]

\* No CRUD call made yet.
NoCrud ==
    [name |-> "", addr |-> "", prototype |-> ZeroList, sent |-> <<>>, list |-> ZeroList,
     err |-> Nil, before |-> NoList,
     previous |-> [name |-> "", prototype |-> ZeroList, before |-> NoList]]

\* After mg.ListMailingLists(opts): the caller's slot is a nil slice.
Init ==
    /\ server \in Servers
    /\ opts \in Options
    /\ li = ListMailingLists(opts)
    /\ items = <<>>
    /\ op = [name |-> "ListMailingLists", ok |-> TRUE, rerr |-> Nil, fetches |-> 0,
             calls |-> 0, url |-> EmptyURL, ferr |-> Nil]
    /\ fetchFailed = [nav |-> FALSE, get |-> FALSE]
    /\ trip = [stage |-> "none", first |-> <<>>]
    /\ walk = NoWalk
    /\ moved = FALSE
    /\ turns = 0
    /\ peer = [i \in Peers |-> NewPeer(opts)]
    /\ stored = NoList
    /\ crud = NoCrud

Step ==
    \/ CallFirst
    \/ CallNext
    \/ CallPrevious
    \/ CallLast
    \/ CallGetNext
    \/ CallGetPrevious
    \/ CallErr

Spec == Init /\ [][Step]_vars

----------------------------------------------------------------------------
(* The failed state *)

\* C1, as stated: once any fetch made by the iterator has returned an error,
\* every later call of First, Next, Previous, Last, GetNext or GetPrevious
\* returns failure and issues no network call.
C1_AnyCallAfterAnyFailedFetchShortCircuits ==
    [][(fetchFailed.nav \/ fetchFailed.get) /\ op'.name \in Navigation \cup Getters
       => ~op'.ok /\ op'.calls = 0]_vars

\* C1, amended: once a fetch made by First, Next, Previous or Last has returned
\* an error, every later call of First, Next, Previous or Last returns false
\* without calling fetch, so without a network call.
C1_NavigationAfterFailedNavigationShortCircuits ==
    [][fetchFailed.nav /\ op'.name \in Navigation
       => ~op'.ok /\ op'.fetches = 0 /\ op'.calls = 0]_vars

\* A navigation call made after an earlier navigation call's fetch failed, on
\* an iterator that had fetched a page before.
C1_Witness ==
    /\ fetchFailed.nav
    /\ op.name \in Navigation
    /\ op.fetches = 0
    /\ ~op.ok
    /\ li.Lists # <<>>

C3_EveryCallIsNoOpOnceFailed ==
    [][Err(li) # Nil /\ op'.name \in Navigation \cup Getters => li' = li]_vars

\* C3, amended: once Err() is non-nil no call of any method changes the value
\* Err() returns, and no call of First, Next, Previous or Last changes the Page
\* or the Cursor.
C3_NavigationIsNoOpOnceFailed ==
    [][Err(li) # Nil => Err(li') = Err(li) /\ (op'.name \in Navigation => li' = li)]_vars

\* Last called on a failed iterator that holds a page.
C3_Witness ==
    /\ Err(li) # Nil
    /\ op.name = "Last"
    /\ op.fetches = 0
    /\ li.Lists # <<>>

\* C4: Previous on a non-failed iterator whose Paging.Previous is empty returns
\* false without calling the transport and leaves the Page, the Cursor, the
\* sticky error and the caller's slot as they were.
C4_PreviousWithEmptyCursorIsSkipped ==
    [][op'.name = "Previous" /\ Err(li) = Nil /\ li.Paging.Previous = EmptyURL
       => ~op'.ok /\ op'.fetches = 0 /\ op'.calls = 0 /\ li' = li /\ items' = items]_vars

\* Previous has been skipped on the first page of a collection, after a fetch.
C4_Witness ==
    /\ op.name = "Previous"
    /\ op.fetches = 0
    /\ Err(li) = Nil
    /\ li.Paging.Previous = EmptyURL
    /\ li.Lists # <<>>

----------------------------------------------------------------------------
(* Pages and the cursor *)

\* C5: when the fetch of Next, Previous or First succeeds with a page of no
\* item, Next and Previous return false, First returns true with no item in
\* the caller's slot, and the sticky error stays nil.
C5_EmptyPage ==
    op.fetches = 1 /\ op.ferr = Nil /\ li.Lists = <<>> /\ op.name \in {"Next", "Previous", "First"}
    => /\ Err(li) = Nil
       /\ op.name \in {"Next", "Previous"} => ~op.ok
       /\ op.name = "First" => op.ok /\ items = <<>>

\* First has fetched the only, empty, page of an empty collection.
C5_Witness ==
    /\ op.name = "First"
    /\ op.calls = 1
    /\ op.ferr = Nil
    /\ li.Lists = <<>>
    /\ op.ok

\* The URL the iterator was constructed with.
StartingURL == ListMailingLists(opts).Paging.First

\* C6, as stated: Paging.First is, in every reachable state, the URL the
\* iterator was constructed with.
C6_FirstIsAlwaysTheStartingURL == li.Paging.First = StartingURL

\* C6, amended: Paging.First is the starting URL at construction; a call whose
\* fetch succeeds replaces it by the first link of the response fetched, and
\* any other call leaves it as it was.  With a server whose first link repeats
\* the starting URL it is that URL in every state.
C6_FirstFollowsTheLastResponse ==
    /\ li.Paging.First = StartingURL
    /\ [][li'.Paging.First = IF op'.fetches = 1 /\ op'.ferr = Nil
                             THEN Serve(op'.url).Paging.First
                             ELSE li.Paging.First]_vars
    /\ [](server.firstIsStart => li.Paging.First = StartingURL)

\* A successful fetch has put a first link other than the starting URL in the
\* cursor.
C6_Witness ==
    /\ op.fetches = 1
    /\ op.ferr = Nil
    /\ li.Paging.First # StartingURL

C8_FirstNextPreviousReturns ==
    trip.stage = "previous" => li.Lists = trip.first /\ items = trip.first

\* First, Next, Previous have all returned true on a collection of more than
\* two pages.
C8_Witness ==
    /\ trip.stage = "previous"
    /\ op.name = "Previous"
    /\ op.ok
    /\ server.n > 2 * PageSize(StartingURL)

\* The sequence lo, lo + 1, ..., hi.
Range(lo, hi) == IF hi < lo THEN <<>> ELSE [i \in 1..(hi - lo + 1) |-> lo + i - 1]

\* C9: with a page size L and no fetch error, First and then Next, Next, ...
\* give the n items of the collection in the server's order, each once, L to a
\* page (what remains on the last one), every true Next giving at least one
\* item; the Next that returns false comes when all n have been given and
\* leaves no item in the caller's slot.
C9_ForwardWalkDeliversEveryItemOnce ==
    walk.active
    => LET L    == PageSize(StartingURL)
           sofar == Min(server.n, walk.pages * L)
           before == Min(server.n, (walk.pages - 1) * L)
       IN  /\ walk.got = Range(1, sofar)
           /\ walk.done => sofar = server.n /\ items = <<>> /\ Err(li) = Nil
           /\ ~walk.done => items = Range(before + 1, sofar)
           /\ op.name \in {"First", "Next"} => op.ok = ~walk.done
           /\ ~walk.done /\ walk.pages > 1 => before < server.n

\* The largest collection walked to its end in pages of the largest limit, the
\* last page a partial one (5 items in pages of 2: 2, 2 and 1 item, then false).
C9_Witness ==
    /\ walk.active
    /\ walk.done
    /\ op.name = "Next"
    /\ ~op.ok
    /\ walk.pages > 2
    /\ server.n = MaxItems
    /\ opts.Limit = MaxLimit
    /\ server.n % opts.Limit # 0
    /\ Len(walk.got) = MaxItems

\* C10: when First, Next, Previous or Last returns true the caller's slot holds
\* the items of the page that call fetched, which is the iterator's page; when
\* it returns false because its fetch failed or because the iterator had
\* failed before, the slot is left as it was.
C10_SlotWrittenOnlyOnSuccess ==
    [][op'.name \in Navigation
       => /\ op'.ok => /\ op'.fetches = 1
                       /\ items' = li'.Lists
                       /\ items' = Serve(op'.url).Lists
          /\ ~op'.ok /\ (op'.ferr # Nil \/ Err(li) # Nil) => items' = items]_vars

\* A navigation call's fetch has failed and the caller's slot still holds the
\* items of an earlier page, not those of the iterator's page.
C10_Witness ==
    /\ op.name \in Navigation
    /\ op.ferr # Nil
    /\ ~op.ok
    /\ items # <<>>
    /\ items # li.Lists

----------------------------------------------------------------------------
(* The sticky error, the fetch and the transport *)

C18_FirstResets ==
    op.name = "First" /\ op.ok
    => LET fresh == First(ListMailingLists(opts), <<>>, "ok")
       IN  li = fresh.li /\ items = fresh.items

\* First has returned true after the iterator had been moved to another page.
C18_Witness ==
    /\ op.name = "First"
    /\ op.ok
    /\ moved
    /\ li.Lists # <<>>

\* C19: First and Last return false only with a sticky error; Next and Previous
\* return false without a sticky error only when the page fetched has no item,
\* the Page and the Cursor then being those of the response, or, for Previous,
\* when nothing was fetched because Paging.Previous is empty.
C19_FalseWithoutErrorIsExhaustion ==
    /\ op.name \in {"First", "Last"} /\ ~op.ok => Err(li) # Nil
    /\ op.name \in {"Next", "Previous"} /\ ~op.ok /\ Err(li) = Nil
       => \/ /\ op.fetches = 1 /\ op.calls = 1 /\ op.ferr = Nil
             /\ Serve(op.url).Lists = <<>>
             /\ li.Lists = <<>>
             /\ li.Paging = Serve(op.url).Paging
          \/ /\ op.name = "Previous"
             /\ op.fetches = 0
             /\ li.Paging.Previous = EmptyURL

\* Next has returned false without an error past the last page of a collection
\* that is not empty.
C19_Witness ==
    /\ op.name = "Next"
    /\ ~op.ok
    /\ Err(li) = Nil
    /\ li.Lists = <<>>
    /\ server.n > 0
    /\ li.Paging.Previous # EmptyURL

----------------------------------------------------------------------------
(* The caller's loop: Next until it returns false *)

\* The turns the loop is followed for: one per item and the turn that ends it,
\* and one to spare.
MaxTurns == MaxItems + 2

\* One turn of the loop `for li.Next(&items) { ... }` on a fresh iterator: the
\* loop goes on while Next returns true.
LoopNext ==
    /\ op.name = "ListMailingLists" \/ (op.name = "Next" /\ op.ok)
    /\ turns < MaxTurns
    /\ \E outcome \in Outcomes : InvokeCore("Next", Next(li, items, outcome))
    /\ turns' = turns + 1
    /\ UNCHANGED <<peer, stored, crud>>

\* The loop runs on: the caller's thread is not stopped between two calls.
SpecLoop == Init /\ [][LoopNext]_vars /\ WF_vars(LoopNext)

\* C17: the loop ends: some Next returns false, with a sticky error or on an
\* empty page.
C17_ForwardLoopTerminates ==
    <>(op.name = "Next" /\ ~op.ok /\ (Err(li) # Nil \/ li.Lists = <<>>) /\ turns < MaxTurns)

\* The loop has ended on the empty page after the last item of the largest
\* collection.
C17_Witness ==
    /\ op.name = "Next"
    /\ ~op.ok
    /\ Err(li) = Nil
    /\ li.Lists = <<>>
    /\ server.n = MaxItems
    /\ opts.Limit = MaxLimit
    /\ turns > 2

----------------------------------------------------------------------------
(* Two iterators of one client *)

\* The calls followed on each of the two iterators.
MaxPeerCalls == 2

\* The call of method name on receiver it with slot out.
Method(name, it, out, outcome) ==
    CASE name = "First" -> First(it, out, outcome)
      [] name = "Next" -> Next(it, out, outcome)
      [] name = "Previous" -> Previous(it, out, outcome)
      [] name = "Last" -> Last(it, out, outcome)

\* The iterator and slot of a peer after a call, with the record of the call.
PeerAfter(i, name, res) ==
    [li |-> res.li, items |-> res.items, op |-> Call(name, res), calls |-> peer[i].calls + 1]

\* A call on iterator i that decodes into a listsResponse the iterators share.
PeerInvokeShared(i, name, res) ==
    /\ peer[i].calls < MaxPeerCalls
    /\ peer' = [j \in Peers |->
                    IF j = i
                    THEN PeerAfter(i, name, res)
                    ELSE [peer[j] EXCEPT !.li.Lists = res.li.Lists,
                                         !.li.Paging = res.li.Paging]]
    /\ UNCHANGED <<server, opts, li, items, op, fetchFailed, trip, walk, moved,
                   turns, stored, crud>>

\* A call of a method on iterator i: the receiver is its own struct, with its
\* own listsResponse and err, and its fetch decodes into that.
PeerInvoke(i, name, res) ==
    /\ peer[i].calls < MaxPeerCalls
    /\ peer' = [peer EXCEPT ![i] = PeerAfter(i, name, res)]
    /\ UNCHANGED <<server, opts, li, items, op, fetchFailed, trip, walk, moved,
                   turns, stored, crud>>

PeerFirst ==
    \E i \in Peers, outcome \in Outcomes :
        PeerInvoke(i, "First", First(peer[i].li, peer[i].items, outcome))

PeerNext ==
    \E i \in Peers, outcome \in Outcomes :
        PeerInvoke(i, "Next", Next(peer[i].li, peer[i].items, outcome))

PeerPrevious ==
    \E i \in Peers, outcome \in Outcomes :
        PeerInvoke(i, "Previous", Previous(peer[i].li, peer[i].items, outcome))

PeerLast ==
    \E i \in Peers, outcome \in Outcomes :
        PeerInvoke(i, "Last", Last(peer[i].li, peer[i].items, outcome))

StepTwo ==
    \/ PeerFirst
    \/ PeerNext
    \/ PeerPrevious
    \/ PeerLast

\* The two iterators are constructed with a limit, over the largest collection.
InitTwo ==
    /\ Init
    /\ server.n = MaxItems
    /\ opts = [present |-> TRUE, Limit |-> MaxLimit]

\* The navigation calls on the two iterators in any order.
SpecTwo == InitTwo /\ [][StepTwo]_vars

----------------------------------------------------------------------------
(* The CRUD calls on one mailing list *)

ReadOnly == "readonly"
Members == "members"
Everyone == "everyone"

Addresses == {"a@x", "b@x"}
Names == {"n1"}
Descriptions == {"d1"}

\* The prototypes a caller passes: every field set or left empty.
Prototypes ==
    [Address : Addresses \cup {""}, Name : Names \cup {""},
     Description : Descriptions \cup {""}, AccessLevel : {"", ReadOnly},
     CreatedAt : {""}, MembersCount : {0}]

\* newUrlEncodedPayload() and p.addValue(key, value)
newUrlEncodedPayload == <<>>

addValue(p, key, value) == Append(p, <<key, value>>)

\* The form fields CreateMailingList and UpdateMailingList build from the
\* prototype: each of the four fields that is not empty.
Payload(prototype) ==
    LET p0 == newUrlEncodedPayload
        p1 == IF prototype.Address # "" THEN addValue(p0, "address", prototype.Address) ELSE p0
        p2 == IF prototype.Name # "" THEN addValue(p1, "name", prototype.Name) ELSE p1
        p3 == IF prototype.Description # ""
              THEN addValue(p2, "description", prototype.Description)
              ELSE p2
    IN  IF prototype.AccessLevel # ""
        THEN addValue(p3, "access_level", prototype.AccessLevel)
        ELSE p3

\* The form fields with every field of the prototype, empty or not.
PayloadOfAll(prototype) ==
    <<<<"address", prototype.Address>>, <<"name", prototype.Name>>,
      <<"description", prototype.Description>>, <<"access_level", prototype.AccessLevel>>>>

\* The server's reading of a form: whether key was sent, and its value.
Has(p, key) == \E k \in 1..Len(p) : p[k][1] = key

Value(p, key, default) ==
    IF Has(p, key) THEN p[CHOOSE k \in 1..Len(p) : p[k][1] = key][2] ELSE default

\* The server's PUT: the fields sent replace those of the record, the others stay.
Patch(l, p) ==
    [l EXCEPT !.Address = Value(p, "address", @),
              !.Name = Value(p, "name", @),
              !.Description = Value(p, "description", @),
              !.AccessLevel = Value(p, "access_level", @)]

\* The server's POST: the record of a new list, with the server's defaults.
Created(p) ==
    [Address |-> Value(p, "address", ""), Name |-> Value(p, "name", ""),
     Description |-> Value(p, "description", ""),
     AccessLevel |-> Value(p, "access_level", Everyone),
     CreatedAt |-> "t0", MembersCount |-> 0]

Holds(addr) == stored.held /\ stored.list.Address = addr

\* What a CRUD call returns and leaves on the server.
Crud(list, err, sent, after) == [list |-> list, err |-> err, sent |-> sent, stored |-> after]

\* What the transport's outcome and the server's answer make of a request
\* that would leave the server holding after and return list.
Answer(outcome, accepted, list, sent, after) ==
    CASE outcome \in {TransportError, StatusError} -> Crud(ZeroList, outcome, sent, stored)
      [] outcome = "ok" /\ ~accepted -> Crud(ZeroList, StatusError, sent, stored)
      [] outcome = DecodeError /\ ~accepted -> Crud(ZeroList, StatusError, sent, stored)
      [] outcome = DecodeError /\ accepted -> Crud(ZeroList, DecodeError, sent, after)
      [] outcome = "ok" /\ accepted -> Crud(list, Nil, sent, after)

\* mg.CreateMailingList(prototype)
CreateMailingList(prototype, outcome) ==
    LET p == Payload(prototype)
        l == Created(p)
    IN  Answer(outcome, ~stored.held /\ l.Address # "", l, p, [held |-> TRUE, list |-> l])

\* mg.DeleteMailingList(addr)
DeleteMailingList(addr, outcome) == Answer(outcome, Holds(addr), ZeroList, <<>>, NoList)

\* mg.GetMailingList(addr)
GetMailingList(addr, outcome) == Answer(outcome, Holds(addr), stored.list, <<>>, stored)

\* UpdateMailingList sending the four fields whatever they hold.
UpdateMailingListSendsAll(addr, prototype, outcome) ==
    LET p == PayloadOfAll(prototype)
        l == Patch(stored.list, p)
    IN  Answer(outcome, Holds(addr), l, p, [held |-> TRUE, list |-> l])

\* mg.UpdateMailingList(addr, prototype)
UpdateMailingList(addr, prototype, outcome) ==
    LET p == Payload(prototype)
        l == Patch(stored.list, p)
    IN  Answer(outcome, Holds(addr), l, p, [held |-> TRUE, list |-> l])

\* History: for a GetMailingList made right after an UpdateMailingList, that
\* update's prototype and the server's record before it.
PreviousUpdate(name) ==
    IF name = "GetMailingList" /\ crud.name = "UpdateMailingList"
    THEN [name |-> crud.name, prototype |-> crud.prototype, before |-> crud.before]
    ELSE NoCrud.previous

\* A CRUD call from the caller's thread.
InvokeCrud(name, addr, prototype, res) ==
    /\ crud' = [name |-> name, addr |-> addr, prototype |-> prototype, sent |-> res.sent,
                list |-> res.list, err |-> res.err, before |-> stored,
                previous |-> PreviousUpdate(name)]
    /\ stored' = res.stored
    /\ UNCHANGED <<server, opts, li, items, op, fetchFailed, trip, walk, moved, turns, peer>>

CallCreateMailingList ==
    \E prototype \in Prototypes, outcome \in Outcomes :
        InvokeCrud("CreateMailingList", "", prototype, CreateMailingList(prototype, outcome))

CallDeleteMailingList ==
    \E addr \in Addresses, outcome \in Outcomes :
        InvokeCrud("DeleteMailingList", addr, ZeroList, DeleteMailingList(addr, outcome))

CallGetMailingList ==
    \E addr \in Addresses, outcome \in Outcomes :
        InvokeCrud("GetMailingList", addr, ZeroList, GetMailingList(addr, outcome))

CallUpdateMailingList ==
    \E addr \in Addresses, prototype \in Prototypes, outcome \in Outcomes :
        InvokeCrud("UpdateMailingList", addr, prototype,
                   UpdateMailingList(addr, prototype, outcome))

\* The CRUD calls are made beside an iterator over an empty collection.
InitCrud ==
    /\ Init
    /\ server = [n |-> 0, firstIsStart |-> TRUE, previousOnFirst |-> FALSE]
    /\ ~opts.present

StepCrud ==
    \/ CallCreateMailingList
    \/ CallDeleteMailingList
    \/ CallGetMailingList
    \/ CallUpdateMailingList

SpecCrud == InitCrud /\ [][StepCrud]_vars

\* The fields of a prototype that UpdateMailingList looks at, with their form keys.
FormKey ==
    [Address |-> "address", Name |-> "name", Description |-> "description",
     AccessLevel |-> "access_level"]

Set(prototype) == {f \in DOMAIN FormKey : prototype[f] # ""}

\* C13: UpdateMailingList sends the fields of the prototype that are not
\* empty, each once with its value, and no other; and a GetMailingList that
\* succeeds right after an update whose prototype has one field set returns
\* that field as the server holds it and every other field, CreatedAt and
\* MembersCount included, as it was before the update.
C13_UpdateChangesOnlyTheFieldsSet ==
    /\ crud.name = "UpdateMailingList"
       => /\ Len(crud.sent) = Cardinality(Set(crud.prototype))
          /\ \A f \in DOMAIN FormKey :
                Has(crud.sent, FormKey[f]) <=> f \in Set(crud.prototype)
          /\ \A f \in Set(crud.prototype) :
                Value(crud.sent, FormKey[f], "") = crud.prototype[f]
    /\ /\ crud.name = "GetMailingList"
       /\ crud.err = Nil
       /\ crud.previous.name = "UpdateMailingList"
       /\ Cardinality(Set(crud.previous.prototype)) = 1
       => \A f \in DOMAIN ZeroList :
            IF f \in Set(crud.previous.prototype) /\ crud.previous.before # stored
            THEN crud.list[f] = crud.previous.prototype[f]
            ELSE crud.list[f] = crud.previous.before.list[f]

\* GetMailingList has returned the list after an update that set only its
\* address to another one, the list having a name, a description and an access
\* level.
C13_Witness ==
    /\ crud.name = "GetMailingList"
    /\ crud.err = Nil
    /\ crud.previous.name = "UpdateMailingList"
    /\ Set(crud.previous.prototype) = {"Address"}
    /\ crud.list.Address # crud.previous.before.list.Address
    /\ crud.list.Name # ""
    /\ crud.list.Description # ""
    /\ crud.list.AccessLevel = ReadOnly

====
